---- MODULE Spec2Model ----
(***************************************************************************)
(* git-recent: list the most recently committed branches of a repository.  *)
(* A model of src/main.cpp: main(), run(), collect_branches() and          *)
(* format_duration(), with libgit2 as the environment.                      *)
(*                                                                         *)
(* Time is counted in whole seconds.  git_commit_time() has seconds         *)
(* resolution; std::chrono::system_clock::now() is finer, but every         *)
(* duration_cast in format_duration truncates to hours or days, so the      *)
(* sub-second part of the clock never changes a result.                     *)
(***************************************************************************)
EXTENDS Integers, Sequences, FiniteSets, TLC

VARIABLES
  argv,             \* the command line as parsed: [n, remote] (main.cpp:112-115)
  tips,             \* repository: tips[i] = commit time of the i-th reference of the listed namespace
  head,             \* repository: what HEAD resolves to
  pc,               \* position of the process
  opts,             \* run()'s by-value parameter; opts.n is overwritten at main.cpp:167
  remaining,        \* references the branch iterator has not returned yet
  collected,        \* reference ids in the order git_branch_next returned them
  branches,         \* std::vector<entry> branches
  recent,           \* std::span recent
  max_branch_size,  \* run()'s local of the same name
  now,              \* run()'s local of the same name
  out,              \* std::cout: one element per line, each the sequence of its insertions
  errs,             \* std::cerr: one element per line
  run_err,          \* msg of the error run() returns; meaningful when failed_step # "none"
  failed_step,      \* which provider call failed, "none" if none did
  exit_code,        \* main()'s return value, -1 while running
  acquired,         \* handles obtained from libgit2
  released,         \* released[h] = how many times handle h was given back
  order2,           \* second run: enumeration order
  now2,             \* second run: clock reading
  out2,             \* second run: std::cout
  fd_arg,           \* format_duration called on its own: argument
  fd_ret            \* format_duration called on its own: result

vars == <<argv, tips, head, pc, opts, remaining, collected, branches, recent,
          max_branch_size, now, out, errs, run_err, failed_step, exit_code,
          acquired, released, order2, now2, out2, fd_arg, fd_ret>>

(***************************************************************************)
(* Bounds of the model.                                                    *)
(***************************************************************************)
MaxBranches == 3
MaxCount == 2
MaxHalfHours == 100
MaxRerunBranches == 2

(***************************************************************************)
(* Program constants.                                                      *)
(***************************************************************************)
min_padding == 10
SecondsPerMinute == 60
SecondsPerHour == 3600
SecondsPerDay == 86400
DurationNumberWidth == 5
DurationNowWidth == 10
EXIT_FAILURE == 1
EXIT_SUCCESS == 0

(***************************************************************************)
(* The environment: the repository libgit2 reads.                          *)
(***************************************************************************)

\* Short names of the references of the listed namespace (what git_branch_name
\* returns).  Name(2) is longer than min_padding, the others are not.
Name(i) ==
  CASE i = 1 -> "main"
    [] i = 2 -> "origin/main"
    [] i = 3 -> "feature-x"
    [] i = 4 -> "topic"
    [] OTHER -> "wip"

\* git_commit_summary of the tip of reference i.
Summary(i) ==
  CASE i = 1 -> "Fix build"
    [] i = 2 -> "Merge branch 'main'"
    [] OTHER -> "WIP"

\* git_commit_time of a tip, and readings of the system clock, in seconds.
\* Elapsed times now - commit_time cover 30 minutes, 23h59m, 25 hours, and
\* commits in the future by less and by more than a day; between the last two
\* readings no branch changes its rendered age.
Times == {0, 88200, 180000}
Nows == {86340, 90000, 90900}

\* What HEAD is: a symbolic reference to a local branch, detached (the
\* reference git_repository_head returns is then named "HEAD"), or unreadable
\* (git_repository_head fails with an error other than GIT_EUNBORNBRANCH and
\* GIT_ENOTFOUND).
HeadStates == {"refs/heads/main", "HEAD", "<unreadable>"}

\* make_git_error() (main.cpp:57-62) after the named call failed: the message of
\* git_error_last(), or "error" when libgit2 recorded none.  Which of the two
\* happens does not depend on the call; both are explored for the first call.
make_git_error(call) ==
  CASE call = "repository_open" -> {"could not find repository at '.'", "error"}
    [] call = "iterator_new" -> {"failed to create branch iterator"}
    [] call = "branch_next" -> {"corrupted loose reference file"}
    [] call = "reference_peel" -> {"the reference cannot be peeled to a commit"}

\* The full name of reference i of the namespace git_branch_iterator_new lists.
RefName(remote, i) ==
  (IF remote THEN "refs/remotes/" ELSE "refs/heads/") \o Name(i)

\* libgit2's git_branch_is_head: 0 for a reference outside refs/heads/, a negative
\* error code when HEAD cannot be read, else whether HEAD names the reference.
git_branch_is_head(remote, i) ==
  IF remote THEN 0
  ELSE IF head = "<unreadable>" THEN -1
  ELSE IF head = RefName(remote, i) THEN 1
  ELSE 0

(***************************************************************************)
(* Handles.                                                                *)
(***************************************************************************)
LibH == <<"libgit2", 0>>
RepoH == <<"repository", 0>>
IterH == <<"branch_iterator", 0>>
RefH(i) == <<"reference", i>>
CommitH(i) == <<"commit", i>>

Handles ==
  {LibH, RepoH, IterH} \cup {RefH(i) : i \in 1..MaxBranches}
                       \cup {CommitH(i) : i \in 1..MaxBranches}

Release(rel, hs) == [h \in Handles |-> IF h \in hs THEN rel[h] + 1 ELSE rel[h]]

(***************************************************************************)
(* format_duration (main.cpp:64-82).                                       *)
(***************************************************************************)

\* std::chrono::duration_cast to a coarser unit: integer division that truncates
\* toward zero.
duration_cast_floor(ticks, unit) == ticks \div unit
duration_cast(ticks, unit) ==
  IF ticks >= 0 THEN ticks \div unit ELSE -((-ticks) \div unit)

Digit(d) ==
  CASE d = 0 -> "0" [] d = 1 -> "1" [] d = 2 -> "2" [] d = 3 -> "3" [] d = 4 -> "4"
    [] d = 5 -> "5" [] d = 6 -> "6" [] d = 7 -> "7" [] d = 8 -> "8" [] d = 9 -> "9"

\* operator<< of a non-negative integer: its decimal digits.
RECURSIVE Decimal(_)
Decimal(v) == IF v < 10 THEN Digit(v) ELSE Decimal(v \div 10) \o Digit(v % 10)

\* std::setw(w) with right adjustment: pad on the left, never truncate.
RECURSIVE PadLeft(_, _)
PadLeft(s, w) == IF Len(s) >= w THEN s ELSE PadLeft(" " \o s, w)

\* std::left << std::setw(w): pad on the right, never truncate.
RECURSIVE PadRight(_, _)
PadRight(s, w) == IF Len(s) >= w THEN s ELSE PadRight(s \o " ", w)

format_duration_minutes(duration) ==
  LET d == duration_cast(duration, SecondsPerDay)
      h == duration_cast(duration - d * SecondsPerDay, SecondsPerHour)
      m == duration_cast(duration - d * SecondsPerDay - h * SecondsPerHour,
                         SecondsPerMinute)
  IN  IF d > 0 THEN PadLeft(Decimal(d), DurationNumberWidth) \o "d ago"
      ELSE IF h > 0 THEN PadLeft(Decimal(h), DurationNumberWidth) \o "h ago"
      ELSE IF m > 0 THEN PadLeft(Decimal(m), DurationNumberWidth) \o "m ago"
      ELSE PadLeft("now", DurationNowWidth)

format_duration(duration) ==
  LET d == duration_cast(duration, SecondsPerDay)
      h == duration_cast(duration - d * SecondsPerDay, SecondsPerHour)
      m == duration_cast(duration - d * SecondsPerDay - h * SecondsPerHour,
                         SecondsPerMinute)
  IN  IF d > 0 THEN PadLeft(Decimal(d), DurationNumberWidth) \o "d ago"
      ELSE IF h > 0 THEN PadLeft(Decimal(h), DurationNumberWidth) \o "h ago"
      ELSE IF d > 0 THEN PadLeft(Decimal(m), DurationNumberWidth) \o "m ago"
      ELSE PadLeft("now", DurationNowWidth)

(***************************************************************************)
(* The pipeline of run() (main.cpp:153-200).                               *)
(***************************************************************************)

\* struct entry, as its constructor fills it (main.cpp:38-51).
entry(i) ==
  [ref |-> i, commit |-> i, name |-> Name(i), commit_time |-> tips[i]]

\* main.cpp:166-167.  opts.n is unsigned and branches.size() is size_t; the
\* comparison is made in size_t and the assignment narrows only beyond 2^32
\* branches.
NormalizedCountNoZero(n, size) == IF n > size THEN size ELSE n
NormalizedCount(n, size) == IF n = 0 \/ n > size THEN size ELSE n

\* The comparator handed to partial_sort (main.cpp:171).
comp_ascending(a, b) == a.commit_time < b.commit_time
comp(a, b) == a.commit_time > b.commit_time

\* std::ranges::partial_sort(v, v.begin() + n, comp) (main.cpp:169-171): the
\* first n places hold the n first elements of v by comp, in comp order; the
\* order of the rest, and the order among elements neither of which comp puts
\* before the other, is unspecified (libstdc++ selects with a heap and does
\* reorder such elements).  Every arrangement the call may produce:
partial_sort_omitted(v, n) == {v}
partial_sort(v, n) ==
  { s \in { [i \in 1..Len(v) |-> v[p[i]]] : p \in Permutations(1..Len(v)) } :
      /\ \A i, j \in 1..n : i < j => ~comp(s[j], s[i])
      /\ \A i \in 1..n : \A j \in (n + 1)..Len(v) : ~comp(s[j], s[i]) }

\* std::span(branches.begin(), opts.n) (main.cpp:173).
span(v, n) == SubSeq(v, 1, n)

Max(a, b) == IF a >= b THEN a ELSE b

\* std::transform_reduce over recent with std::max and strlen(e.name), from
\* min_padding (main.cpp:175-179).
RECURSIVE transform_reduce(_, _)
transform_reduce(r, init) ==
  IF r = <<>> THEN init
  ELSE transform_reduce(Tail(r), Max(init, Len(Head(r).name)))

MaxBranchSizeNoMin(r) == transform_reduce(r, 0)
MaxBranchSize(r) == transform_reduce(r, min_padding)

\* One pass of the printing loop (main.cpp:183-192): the insertions into
\* std::cout that make one line.  git_branch_is_head's int is used as a bool.
PrintLine(e, width, clock) ==
  << IF git_branch_is_head(opts.remote, e.ref) # 0 THEN "* " ELSE "  ",
     PadRight(e.name, width),
     "  ",
     format_duration(clock - e.commit_time),
     "  ",
     Summary(e.commit),
     "\n" >>

PrintLines(r, width, clock) == [i \in 1..Len(r) |-> PrintLine(r[i], width, clock)]

(***************************************************************************)
(* Initial state: parse_options has returned (main.cpp:205).               *)
(***************************************************************************)
Repositories == UNION { [1..k -> Times] : k \in 0..MaxBranches }

\* Nothing has run yet.
Fresh ==
  /\ remaining = {}
  /\ collected = <<>>
  /\ branches = <<>>
  /\ recent = <<>>
  /\ max_branch_size = 0
  /\ now = 0
  /\ out = <<>>
  /\ errs = <<>>
  /\ run_err = ""
  /\ failed_step = "none"
  /\ exit_code = -1
  /\ acquired = {}
  /\ released = [h \in Handles |-> 0]
  /\ order2 = <<>>
  /\ now2 = 0
  /\ out2 = <<>>
  /\ fd_arg = 0
  /\ fd_ret = ""

Init ==
  /\ argv \in [n : 0..MaxCount, remote : BOOLEAN]
  /\ tips \in Repositories
  /\ head \in HeadStates
  /\ pc = "main"
  /\ opts = argv
  /\ Fresh

env == <<argv, tips, head>>
second == <<order2, now2, out2>>
standalone == <<fd_arg, fd_ret>>
rendering == <<recent, max_branch_size, now, out>>

(***************************************************************************)
(* main() and run() up to the provider (main.cpp:204-209, 153-164).        *)
(***************************************************************************)

\* git_libgit2_init() (main.cpp:207).
LibInit ==
  /\ pc = "main"
  /\ acquired' = acquired \cup {LibH}
  /\ pc' = "repository_open"
  /\ UNCHANGED <<env, opts, remaining, collected, branches, rendering, errs,
                 run_err, failed_step, exit_code, released, second, standalone>>

\* git_repository_open_ext succeeds; the unique_ptr takes the repository
\* (main.cpp:154-159).
RepositoryOpen ==
  /\ pc = "repository_open"
  /\ acquired' = acquired \cup {RepoH}
  /\ pc' = "iterator_new"
  /\ UNCHANGED <<env, opts, remaining, collected, branches, rendering, errs,
                 run_err, failed_step, exit_code, released, second, standalone>>

\* git_repository_open_ext fails: run returns make_git_error() (main.cpp:155-156).
RepositoryOpenFails ==
  /\ pc = "repository_open"
  /\ \E msg \in make_git_error("repository_open") : run_err' = msg
  /\ failed_step' = "repository_open"
  /\ pc' = "report"
  /\ UNCHANGED <<env, opts, remaining, collected, branches, rendering, errs,
                 exit_code, acquired, released, second, standalone>>

(***************************************************************************)
(* collect_branches (main.cpp:118-145).  When it returns an error, run      *)
(* returns it at once (main.cpp:163-164): the vector and the unique_ptr go  *)
(* out of scope, which frees the repository and nothing else; the iterator  *)
(* and the handles held by the vector's entries stay acquired.              *)
(***************************************************************************)

\* git_branch_iterator_new succeeds (main.cpp:122-123).
IteratorNew ==
  /\ pc = "iterator_new"
  /\ acquired' = acquired \cup {IterH}
  /\ remaining' = 1..Len(tips)
  /\ pc' = "branch_next"
  /\ UNCHANGED <<env, opts, collected, branches, rendering, errs, run_err,
                 failed_step, exit_code, released, second, standalone>>

\* git_branch_iterator_new fails (main.cpp:123-124).
IteratorNewFails ==
  /\ pc = "iterator_new"
  /\ \E msg \in make_git_error("iterator_new") : run_err' = msg
  /\ failed_step' = "iterator_new"
  /\ released' = Release(released, {RepoH})
  /\ pc' = "report"
  /\ UNCHANGED <<env, opts, remaining, collected, branches, rendering, errs,
                 exit_code, acquired, second, standalone>>

\* One pass of the loop with both calls succeeding (main.cpp:127-139): the
\* iterator hands out a reference, in no guaranteed order; it peels to a commit;
\* the entry is appended.
BranchNext ==
  /\ pc = "branch_next"
  /\ \E i \in remaining :
       /\ remaining' = remaining \ {i}
       /\ acquired' = acquired \cup {RefH(i), CommitH(i)}
       /\ branches' = Append(branches, entry(i))
       /\ collected' = Append(collected, i)
  /\ UNCHANGED <<env, pc, opts, rendering, errs, run_err, failed_step,
                 exit_code, released, second, standalone>>

\* git_branch_next fails with an error other than GIT_ITEROVER (main.cpp:129-133).
BranchNextFails ==
  /\ pc = "branch_next"
  /\ \E msg \in make_git_error("branch_next") : run_err' = msg
  /\ failed_step' = "branch_next"
  /\ released' = Release(released, {RepoH})
  /\ branches' = <<>>
  /\ collected' = <<>>
  /\ remaining' = {}
  /\ pc' = "report"
  /\ UNCHANGED <<env, opts, rendering, errs, exit_code, acquired, second,
                 standalone>>

\* The skipping variant of a failed peel: drop the reference and go on.
ReferencePeelSkips ==
  /\ pc = "branch_next"
  /\ \E i \in remaining :
       /\ remaining' = remaining \ {i}
       /\ acquired' = acquired \cup {RefH(i)}
       /\ released' = Release(released, {RefH(i)})
  /\ failed_step' = "reference_peel"
  /\ UNCHANGED <<env, pc, opts, collected, branches, rendering, errs, run_err,
                 exit_code, second, standalone>>

\* git_branch_next hands out a reference and git_reference_peel fails on it
\* (main.cpp:135-137).
ReferencePeelFails ==
  /\ pc = "branch_next"
  /\ \E i \in remaining : acquired' = acquired \cup {RefH(i)}
  /\ \E msg \in make_git_error("reference_peel") : run_err' = msg
  /\ failed_step' = "reference_peel"
  /\ released' = Release(released, {RepoH})
  /\ branches' = <<>>
  /\ collected' = <<>>
  /\ remaining' = {}
  /\ pc' = "report"
  /\ UNCHANGED <<env, opts, rendering, errs, exit_code, second, standalone>>

\* git_branch_next returns GIT_ITEROVER: the iterator is freed and the branches
\* are returned with no error (main.cpp:130-131, 142-144).
IterOver ==
  /\ pc = "branch_next"
  /\ remaining = {}
  /\ released' = Release(released, {IterH})
  /\ pc' = "rank"
  /\ UNCHANGED <<env, opts, remaining, collected, branches, rendering, errs,
                 run_err, failed_step, exit_code, acquired, second, standalone>>

(***************************************************************************)
(* Ranking and printing (main.cpp:166-199).                                *)
(***************************************************************************)

\* The rest of run (main.cpp:166-199): normalise the count, partial_sort, take
\* the span, compute the column width, read the clock, print one line per
\* entry of recent, free every entry's commit and reference, return {}.
\* branches and the unique_ptr go out of scope; recent, max_branch_size and now
\* are kept as the record of what was printed.
RankAndPrint ==
  /\ pc = "rank"
  /\ LET n == NormalizedCount(opts.n, Len(branches))
     IN  /\ opts' = [opts EXCEPT !.n = n]
         /\ \E sorted \in partial_sort(branches, n) : recent' = span(sorted, n)
  /\ max_branch_size' = MaxBranchSize(recent')
  /\ \E clock \in Nows :
       /\ now' = clock
       /\ out' = PrintLines(recent', max_branch_size', clock)
  /\ released' = Release(released,
                   {RepoH} \cup {CommitH(branches[i].commit) : i \in 1..Len(branches)}
                           \cup {RefH(branches[i].ref) : i \in 1..Len(branches)})
  /\ branches' = <<>>
  /\ collected' = <<>>
  /\ pc' = "report"
  /\ UNCHANGED <<env, remaining, errs, run_err, failed_step, exit_code,
                 acquired, second, standalone>>

(***************************************************************************)
(* main() after run() (main.cpp:209-215).                                  *)
(***************************************************************************)

\* run returned an error: one line on std::cerr, EXIT_FAILURE (main.cpp:209-212).
ReportFailure ==
  /\ pc = "report"
  /\ failed_step # "none"
  /\ errs' = Append(errs, <<"error: ", run_err, "\n">>)
  /\ exit_code' = EXIT_FAILURE
  /\ pc' = "exit"
  /\ UNCHANGED <<env, opts, remaining, collected, branches, rendering, run_err,
                 failed_step, acquired, released, second, standalone>>

\* run returned no error: git_libgit2_shutdown(), return 0 (main.cpp:214-215).
ReportSuccess ==
  /\ pc = "report"
  /\ failed_step = "none"
  /\ released' = Release(released, {LibH})
  /\ exit_code' = EXIT_SUCCESS
  /\ pc' = "exit"
  /\ UNCHANGED <<env, opts, remaining, collected, branches, rendering, errs,
                 run_err, failed_step, acquired, second, standalone>>

Next ==
  \/ LibInit
  \/ RepositoryOpen
  \/ RepositoryOpenFails
  \/ IteratorNew
  \/ IteratorNewFails
  \/ BranchNext
  \/ BranchNextFails
  \/ ReferencePeelFails
  \/ IterOver
  \/ RankAndPrint
  \/ ReportFailure
  \/ ReportSuccess

Spec == Init /\ [][Next]_vars

(***************************************************************************)
(* A second run of the program on the unchanged repository, with the same  *)
(* command line, after a first run that succeeded: the steps IteratorNew,   *)
(* BranchNext (in any order of the references), IterOver and RankAndPrint   *)
(* taken together, with the clock read anew.                                *)
(***************************************************************************)
Rerun ==
  /\ pc = "exit"
  /\ exit_code = EXIT_SUCCESS
  /\ LET n == NormalizedCount(argv.n, Len(tips))
     IN  \E p \in Permutations(1..Len(tips)) :
           \E sorted \in partial_sort([i \in 1..Len(tips) |-> entry(p[i])], n) :
             \E clock \in Nows :
               /\ order2' = [i \in 1..Len(tips) |-> p[i]]
               /\ now2' = clock
               /\ out2' = PrintLines(span(sorted, n), MaxBranchSize(span(sorted, n)), clock)
  /\ pc' = "exit2"
  /\ UNCHANGED <<env, opts, remaining, collected, branches, rendering, errs,
                 run_err, failed_step, exit_code, acquired, released, standalone>>

NextTwice == Next \/ Rerun

InitTwice == Init /\ Len(tips) <= MaxRerunBranches

SpecTwice == InitTwice /\ [][NextTwice]_vars

(***************************************************************************)
(* format_duration called on its own.                                      *)
(***************************************************************************)
Durations ==
  { k * 1800 + o : k \in (-MaxHalfHours)..MaxHalfHours, o \in {-60, -1, 0, 1} }
    \cup { k * SecondsPerDay + o : k \in (-MaxHalfHours)..MaxHalfHours, o \in {-1, 0} }

InitFormat ==
  /\ argv = [n |-> 0, remote |-> FALSE]
  /\ tips = <<>>
  /\ head = "HEAD"
  /\ pc = "format_duration"
  /\ opts = argv
  /\ remaining = {}
  /\ collected = <<>>
  /\ branches = <<>>
  /\ recent = <<>>
  /\ max_branch_size = 0
  /\ now = 0
  /\ out = <<>>
  /\ errs = <<>>
  /\ run_err = ""
  /\ failed_step = "none"
  /\ exit_code = -1
  /\ acquired = {}
  /\ released = [h \in Handles |-> 0]
  /\ order2 = <<>>
  /\ now2 = 0
  /\ out2 = <<>>
  /\ fd_arg \in Durations
  /\ fd_ret = ""

FormatDuration ==
  /\ pc = "format_duration"
  /\ fd_ret' = format_duration(fd_arg)
  /\ pc' = "formatted"
  /\ UNCHANGED <<env, opts, remaining, collected, branches, rendering, errs,
                 run_err, failed_step, exit_code, acquired, released, second,
                 fd_arg>>

NextFormat == FormatDuration

SpecFormat == InitFormat /\ [][NextFormat]_vars

(***************************************************************************)
(* Properties.                                                             *)
(***************************************************************************)

\* The run got through ranking and printing.
Printed == pc \in {"report", "exit", "exit2"} /\ failed_step = "none"

\* The count as the specification normalises it: 0 and anything above the
\* population mean the whole population.
NormalizedRequest ==
  IF argv.n = 0 \/ argv.n > Len(tips) THEN Len(tips) ELSE argv.n

PrintedRefs == { recent[i].ref : i \in 1..Len(recent) }

\* C1: the printed entries are, in print order, k distinct entries of the input
\* (k the normalized count), unchanged, with non-increasing commit_time, and no
\* entry left out has a commit_time greater than that of a printed entry.
C1_MostRecentFirst ==
  Printed =>
    /\ Len(recent) = NormalizedRequest
    /\ Len(out) = Len(recent)
    /\ \A i \in 1..Len(recent) :
         /\ recent[i].ref \in 1..Len(tips)
         /\ recent[i].name = Name(recent[i].ref)
         /\ recent[i].commit_time = tips[recent[i].ref]
         /\ out[i][2] = PadRight(Name(recent[i].ref), max_branch_size)
         /\ out[i][6] = Summary(recent[i].ref)
    /\ \A i, j \in 1..Len(recent) : i < j =>
         /\ recent[i].ref # recent[j].ref
         /\ recent[i].commit_time >= recent[j].commit_time
    /\ \A r \in (1..Len(tips)) \ PrintedRefs :
         \A i \in 1..Len(recent) : tips[r] <= recent[i].commit_time

C1_Witness ==
  /\ pc = "exit"
  /\ exit_code = EXIT_SUCCESS
  /\ Len(tips) = 3
  /\ Len(out) = 2
  /\ recent[1].commit_time > recent[2].commit_time
  /\ \E r \in 1..Len(tips) : r \notin PrintedRefs /\ tips[r] < recent[2].commit_time

\* C2: the number of lines printed is len(entries) when count is 0 or above
\* len(entries), and count otherwise; with no branches nothing is printed,
\* nothing goes to the error stream and the exit code is 0.
C2_OutputLength ==
  /\ Printed =>
       Len(out) = (IF argv.n = 0 THEN Len(tips)
                   ELSE IF argv.n > Len(tips) THEN Len(tips)
                   ELSE argv.n)
  /\ (pc = "exit" /\ failed_step = "none" /\ tips = <<>>) =>
       (out = <<>> /\ errs = <<>> /\ exit_code = 0)

C2_Witness ==
  /\ pc = "exit"
  /\ exit_code = 0
  /\ argv.n = 0
  /\ Len(tips) = 3
  /\ Len(out) = 3

\* Stable descending sort by commit_time: each element goes after every element
\* already placed whose commit_time is not smaller.
InsertStable(sorted, e) ==
  LET k == Cardinality({ i \in 1..Len(sorted) : sorted[i].commit_time >= e.commit_time })
  IN  SubSeq(sorted, 1, k) \o <<e>> \o SubSeq(sorted, k + 1, Len(sorted))

RECURSIVE StableSortDescending(_)
StableSortDescending(v) ==
  IF v = <<>> THEN <<>>
  ELSE InsertStable(StableSortDescending(SubSeq(v, 1, Len(v) - 1)), v[Len(v)])

\* C3: the selected sequence is the stable descending sort of the provider's
\* sequence by commit_time, truncated to the normalized count.
C3_StableSelection ==
  [][pc = "rank" =>
       recent' = SubSeq(StableSortDescending(branches), 1,
                        IF argv.n = 0 \/ argv.n > Len(branches)
                        THEN Len(branches) ELSE argv.n)]_vars

\* C4: when a provider step fails, the run stops there, prints no table line,
\* writes exactly one line to the error stream and exits with a non-zero code.
C4_FailureAborts ==
  failed_step # "none" =>
    /\ pc \in {"report", "exit"}
    /\ out = <<>>
    /\ pc = "report" => errs = <<>>
    /\ pc = "exit" => (Len(errs) = 1 /\ exit_code # 0)

C4_Witness ==
  /\ pc = "exit"
  /\ failed_step = "reference_peel"
  /\ CommitH(1) \in acquired
  /\ RefH(2) \in acquired
  /\ CommitH(2) \notin acquired
  /\ Len(errs) = 1

\* C5: when main returns, every handle acquired has been released exactly once.
C5_AllReleased ==
  pc = "exit" => \A h \in acquired : released[h] = 1

\* C6: for an elapsed time e >= 0, format_duration gives the whole days and
\* "d ago" from one day on, else the whole hours and "h ago" from one hour on,
\* else "now"; 23h59m is 23h ago, 30 minutes is now, 25 hours is 1d ago.
C6_DurationBuckets ==
  (pc = "formatted" /\ fd_arg >= 0) =>
    /\ fd_arg >= 86400 =>
         fd_ret = PadLeft(Decimal(fd_arg \div 86400), 5) \o "d ago"
    /\ (fd_arg < 86400 /\ fd_arg >= 3600) =>
         fd_ret = PadLeft(Decimal(fd_arg \div 3600), 5) \o "h ago"
    /\ fd_arg < 3600 => fd_ret = "       now"
    /\ fd_arg = 23 * 3600 + 59 * 60 => fd_ret = "   23h ago"
    /\ fd_arg = 30 * 60 => fd_ret = "       now"
    /\ fd_arg = 25 * 3600 => fd_ret = "    1d ago"
    /\ fd_arg = 40 * 86400 => fd_ret = "   40d ago"

C6_Witness ==
  /\ pc = "formatted"
  /\ fd_arg = 23 * 3600 + 59 * 60
  /\ fd_ret = "   23h ago"

\* C7: the name column of every printed line is max(10, longest printed name)
\* wide, hence 10 wide when every printed name has at most 10 characters,
\* whatever the names of the branches that were cut off.
C7_ColumnWidth ==
  (Printed /\ out # <<>>) =>
    LET lens == { Len(recent[i].name) : i \in 1..Len(recent) }
        longest == CHOOSE m \in lens : \A l \in lens : l <= m
        width == IF longest > 10 THEN longest ELSE 10
    IN  \A i \in 1..Len(out) : Len(out[i][2]) = width

C7_Witness ==
  /\ pc = "exit"
  /\ exit_code = 0
  /\ Len(tips) = 3
  /\ Len(out) = 2
  /\ 2 \notin PrintedRefs
  /\ Len(Name(2)) > 10
  /\ \A i \in 1..Len(out) : Len(out[i][2]) = 10

\* The two runs render every printed branch with the same age.
SameAges ==
  \A i \in 1..Len(recent) :
    format_duration(now - recent[i].commit_time)
      = format_duration(now2 - recent[i].commit_time)

DistinctTimes == \A i, j \in 1..Len(tips) : i # j => tips[i] # tips[j]

\* C8 as stated: a second run on the unchanged repository prints what the
\* first printed, whatever its enumeration order and clock reading.
C8_Idempotent == pc = "exit2" => out2 = out

\* C8 amended: a second run on the unchanged repository prints what the first
\* printed, whatever its enumeration order, provided the commit times of the
\* branches are pairwise distinct and no printed branch's rendered age differs
\* between the two clock readings.
C8_IdempotentDistinct ==
  (pc = "exit2" /\ DistinctTimes /\ SameAges) => out2 = out

C8_Witness ==
  /\ pc = "exit2"
  /\ DistinctTimes
  /\ SameAges
  /\ now2 # now
  /\ Len(out) = 2
  /\ tips[order2[1]] < tips[order2[2]]
  /\ out2 = out

\* C9: with --remote no line carries "*"; without it a line carries "*" exactly
\* when its branch is the one HEAD points to.
C9_HeadMarker ==
  Printed =>
    \A i \in 1..Len(out) :
      out[i][1] = "* " <=>
        (~argv.remote /\ head = "refs/heads/" \o recent[i].name)

\* C10: a branch whose commit_time is later than now is printed with the age
\* "now" right-justified in 10 characters.
C10_FutureIsNow ==
  Printed =>
    \A i \in 1..Len(out) :
      recent[i].commit_time > now => out[i][4] = "       now"

C10_Witness ==
  /\ pc = "exit"
  /\ \E i \in 1..Len(out) :
       /\ recent[i].commit_time - now > 86400
       /\ out[i][4] = "       now"

====
